---- MODULE Spec2Model ----
(***************************************************************************)
(* BufMutWriter<W: Write> of src/src/lib.rs: a bytes::BufMut that batches  *)
(* into an owned Vec<u8> and sends its output to an io::Write.             *)
(*                                                                         *)
(* Bytes.  The adapter only copies bytes and never inspects them, so a     *)
(* byte is identified with its position in the stream the producer has     *)
(* appended: the k-th byte appended over the adapter's lifetime is the     *)
(* number k.  A reordering, a loss or a duplication is then visible in     *)
(* the sink's log.                                                         *)
(*                                                                         *)
(* Sink.  writer.write_all(bytes) either consumes all the bytes (Ok) or    *)
(* fails (Err) and is then taken to have delivered nothing.  Every         *)
(* invocation, failed or not, is appended to the log `calls`, with         *)
(* whether an earlier failure had not been followed by a check() when it   *)
(* was made (`stale`).  The k-th failure carries the error value k.        *)
(*                                                                         *)
(* Vec<u8>.  Vec::with_capacity(n) is taken to give capacity exactly n     *)
(* (what the global allocator's RawVec records); reserve grows to          *)
(* max(2 * cap, len + additional, 8) when the room is too small, and       *)
(* <Vec<u8> as BufMut>::chunk_mut reserves 64 bytes when the vector is     *)
(* full (bytes 1.x).                                                       *)
(***************************************************************************)
EXTENDS Integers, Sequences, FiniteSets

(* ------------------------------ bounds --------------------------------- *)
\* largest capacity passed to with_capacity
MaxCap == 3
\* total number of bytes appended over a run
MaxTotal == 4
\* longest slice given to put_slice, largest cnt given to advance_mut
MaxSlice == 3
\* a source given to put has at most MaxChunks chunks of 1..MaxChunk bytes
MaxChunks == 2
MaxChunk == 2
\* number of write_all calls that fail in a run
MaxFail == 2

(* ------------------------------ helpers -------------------------------- *)
None == 0

Max(a, b) == IF a >= b THEN a ELSE b
Min(a, b) == IF a <= b THEN a ELSE b

Range(s) == {s[i] : i \in 1..Len(s)}

RECURSIVE Flatten(_)
Flatten(ss) == IF ss = <<>> THEN <<>> ELSE Head(ss) \o Flatten(Tail(ss))

\* the n bytes appended after `from` bytes have been appended
Labels(from, n) == [i \in 1..n |-> from + i]

RECURSIVE Sum(_)
Sum(sizes) == IF sizes = <<>> THEN 0 ELSE Head(sizes) + Sum(Tail(sizes))

\* a Buf whose contiguous chunks have the given sizes
RECURSIVE MkChunks(_, _)
MkChunks(from, sizes) ==
    IF sizes = <<>> THEN <<>>
    ELSE <<Labels(from, Head(sizes))>> \o MkChunks(from + Head(sizes), Tail(sizes))

SourceShapes == UNION {[1..k -> 1..MaxChunk] : k \in 0..MaxChunks}

\* Buf::remaining of a source
Remaining(src) == Len(Flatten(src))

VARIABLES
    cap0,       \* the capacity given to with_capacity
    buf,        \* self.buf: the bytes pending in the Vec<u8>
    cap,        \* self.buf.capacity()
    error,      \* self.error: None, or the error of a failed write_all
    calls,      \* the writer: every write_all invocation, in order
    nfail,      \* how many write_all invocations have failed
    unchecked,  \* a write_all has failed and check() has not run since
    phase,      \* "open", "closed" (close returned), "dropped" (released)
    region,     \* length of the UninitSlice last returned by chunk_mut
    appended,   \* how many bytes the producer has appended
    op,         \* the operation performed last
    arg,        \* its input: the slice, or the source's chunks
    ret,        \* what check()/close() returned last: None for Ok(())
    flushed,    \* whether the last operation ran flush_buf
    lost,       \* bytes that were in buf at a failed or suppressed flush
    slicesOnly, \* only put_slice (and check) have been used so far
    iters,      \* how many times the last put went round its while loop
    srcLeft,    \* what the last put left unread of its source
    checkedErr  \* some check() call has returned an error

vars == <<cap0, buf, cap, error, calls, nfail, unchecked, phase, region,
          appended, op, arg, ret, flushed, lost, slicesOnly, iters, srcLeft,
          checkedErr>>

\* the adapter and its writer as one value.  An operation maps it to the
\* set of values it can leave behind, one for each way the write_all
\* invocations it makes can turn out.
Self ==
    [buf |-> buf, cap |-> cap, error |-> error, calls |-> calls,
     nfail |-> nfail, unchecked |-> unchecked, lost |-> lost,
     flushed |-> FALSE, iters |-> 0]

(* ------------------------------ Vec<u8> -------------------------------- *)
\* Vec::reserve(additional)
VecReserve(w, additional) ==
    IF w.cap - Len(w.buf) >= additional THEN w
    ELSE [w EXCEPT !.cap = Max(Max(2 * w.cap, Len(w.buf) + additional), 8)]

\* Vec::extend_from_slice, which is also <Vec<u8> as BufMut>::put_slice
VecExtend(w, bytes) ==
    LET r == VecReserve(w, Len(bytes))
    IN  [r EXCEPT !.buf = @ \o bytes]

\* <Vec<u8> as BufMut>::put: reserve, then extend chunk by chunk
VecPut(w, src) == VecExtend(w, Flatten(src))

\* <Vec<u8> as BufMut>::chunk_mut: a full vector grows by reserve(64)
VecChunkMut(w) == IF w.cap = Len(w.buf) THEN VecReserve(w, 64) ELSE w

(* --------------------------- BufMutWriter ------------------------------ *)
\* writer.write_all(bytes) returned Ok(()) or Err(e); .err() is stored
Written(w, bytes, ok) ==
    [w EXCEPT !.calls = Append(@, [bytes |-> bytes, ok |-> ok,
                                   stale |-> w.unchecked]),
              !.unchecked = @ \/ ~ok,
              !.error = IF ok THEN None ELSE w.nfail + 1,
              !.nfail = IF ok THEN @ ELSE @ + 1]

\* self.error = self.writer.write_all(bytes).err()
write_all(w, bytes) ==
    {Written(w, bytes, ok) : ok \in IF w.nfail < MaxFail THEN BOOLEAN ELSE {TRUE}}

write_Unguarded(w, bytes) == write_all(w, bytes)

write(w, bytes) ==
    IF w.error = None THEN write_all(w, bytes) ELSE {w}

\* self.buf.clear(), after a write_all that left the adapter as v
Cleared(w, v) ==
    [v EXCEPT !.buf = <<>>,
              !.flushed = TRUE,
              !.lost = IF v.error # None THEN @ \cup Range(w.buf) ELSE @]

flush_buf_Unguarded(w) == {Cleared(w, v) : v \in write_all(w, w.buf)}

flush_buf_KeepOnFailure(w) ==
    {IF v.error = None THEN Cleared(w, v) ELSE [v EXCEPT !.flushed = TRUE] :
        v \in IF w.error = None THEN write_all(w, w.buf) ELSE {w}}

flush_buf_NoClear(w) ==
    {[v EXCEPT !.flushed = TRUE] :
        v \in IF w.error = None THEN write_all(w, w.buf) ELSE {w}}

flush_buf(w) ==
    {Cleared(w, v) : v \in IF w.error = None THEN write_all(w, w.buf) ELSE {w}}

check_NoTake(w) ==
    [w |-> [w EXCEPT !.unchecked = FALSE], ret |-> w.error]

\* check: self.error.take()
check(w) ==
    [w |-> [w EXCEPT !.error = None, !.unchecked = FALSE], ret |-> w.error]

drop_Nothing(w) == {w}

\* Drop::drop
drop(w) == flush_buf(w)

close_NoFlush(w) ==
    LET c == check(w)
    IN  {[w |-> d, ret |-> c.ret] : d \in drop(c.w)}

close_CheckFirst(w) ==
    LET c == check(w)
    IN  UNION {{[w |-> d, ret |-> c.ret] : d \in drop(f)} : f \in flush_buf(c.w)}

\* close(mut self): flush_buf, check, and self is dropped before it returns
close(w) ==
    UNION {LET c == check(f)
           IN  {[w |-> d, ret |-> c.ret] : d \in drop(c.w)} : f \in flush_buf(w)}

\* advance_mut(cnt), the producer having written `bytes` into the region
advance_mut(w, bytes) == {[w EXCEPT !.buf = @ \o bytes]}

chunk_mut_NoFlush(w) == {VecChunkMut(w)}

chunk_mut(w) ==
    {VecChunkMut(f) : f \in IF Len(w.buf) = w.cap THEN flush_buf(w) ELSE {w}}

RECURSIVE put_loop_Ge(_, _)
put_loop_Ge(w, src) ==
    IF src # <<>> /\ Remaining(src) >= w.cap
    THEN UNION {put_loop_Ge([v EXCEPT !.iters = @ + 1], Tail(src)) :
                    v \in write(w, Head(src))}
    ELSE {[w |-> w, src |-> src]}

RECURSIVE put_loop_StopOnError(_, _)
put_loop_StopOnError(w, src) ==
    IF Remaining(src) > w.cap /\ w.error = None
    THEN UNION {put_loop_StopOnError([v EXCEPT !.iters = @ + 1], Tail(src)) :
                    v \in write(w, Head(src))}
    ELSE {[w |-> w, src |-> src]}

\* while size > capacity: write the source's chunk and advance past it
RECURSIVE put_loop(_, _)
put_loop(w, src) ==
    IF Remaining(src) > w.cap
    THEN UNION {put_loop([v EXCEPT !.iters = @ + 1], Tail(src)) :
                    v \in write(w, Head(src))}
    ELSE {[w |-> w, src |-> src]}

\* the assertion of line 95 and self.buf.put(src); when the assertion
\* fails the adapter is dropped by the unwinding
put_tail(l) ==
    IF Remaining(l.src) <= l.w.cap - Len(l.w.buf)
    THEN {[w |-> VecPut(l.w, l.src), panic |-> FALSE, left |-> <<>>]}
    ELSE {[w |-> d, panic |-> TRUE, left |-> l.src] : d \in drop(l.w)}

put_NoFlush(w, src) ==
    UNION {put_tail(l) :
        l \in IF Remaining(src) > w.cap - Len(w.buf)
              THEN put_loop(w, src)
              ELSE {[w |-> w, src |-> src]}}

\* put<T: Buf>
put(w, src) ==
    UNION {put_tail(l) :
        l \in IF Remaining(src) > w.cap - Len(w.buf)
              THEN UNION {put_loop(f, src) : f \in flush_buf(w)}
              ELSE {[w |-> w, src |-> src]}}

put_slice_NoFlush(w, src) ==
    IF Len(src) <= w.cap - Len(w.buf) THEN {VecExtend(w, src)}
    ELSE IF Len(src) < w.cap
         THEN {VecExtend(f, src) : f \in flush_buf(w)}
         ELSE write(w, src)

put_slice_Le(w, src) ==
    IF Len(src) <= w.cap - Len(w.buf) THEN {VecExtend(w, src)}
    ELSE UNION {IF Len(src) <= f.cap THEN {VecExtend(f, src)} ELSE write(f, src) :
                    f \in flush_buf(w)}

put_slice_CapNotRoom(w, src) ==
    IF Len(src) <= w.cap THEN {VecExtend(w, src)}
    ELSE UNION {write(f, src) : f \in flush_buf(w)}

put_slice(w, src) ==
    IF Len(src) <= w.cap - Len(w.buf) THEN {VecExtend(w, src)}
    ELSE UNION {IF Len(src) < f.cap THEN {VecExtend(f, src)} ELSE write(f, src) :
                    f \in flush_buf(w)}

(* ------------------------------ actions -------------------------------- *)
\* with_capacity(writer, capacity)
Init ==
    /\ cap0 \in 0..MaxCap
    /\ cap = cap0
    /\ buf = <<>>
    /\ error = None
    /\ calls = <<>>
    /\ nfail = 0
    /\ unchecked = FALSE
    /\ phase = "open"
    /\ region = 0
    /\ appended = 0
    /\ op = "with_capacity"
    /\ arg = <<>>
    /\ ret = None
    /\ flushed = FALSE
    /\ lost = {}
    /\ slicesOnly = TRUE
    /\ iters = 0
    /\ srcLeft = <<>>
    /\ checkedErr = FALSE

\* the adapter's and the writer's state after an operation that left them as w
Store(w) ==
    /\ buf' = w.buf
    /\ cap' = w.cap
    /\ error' = w.error
    /\ calls' = w.calls
    /\ nfail' = w.nfail
    /\ unchecked' = w.unchecked
    /\ lost' = w.lost
    /\ flushed' = w.flushed
    /\ iters' = w.iters

PutSlice ==
    /\ phase = "open"
    /\ \E n \in 0..Min(MaxSlice, MaxTotal - appended) :
         LET src == Labels(appended, n)
         IN  /\ \E w \in put_slice(Self, src) : Store(w)
             /\ appended' = appended + n
             /\ arg' = <<src>>
    /\ op' = "put_slice"
    /\ region' = 0
    /\ srcLeft' = <<>>
    /\ UNCHANGED <<cap0, phase, ret, slicesOnly, checkedErr>>

Put ==
    /\ phase = "open"
    /\ \E sizes \in SourceShapes :
         LET src == MkChunks(appended, sizes)
         IN  /\ appended + Sum(sizes) <= MaxTotal
             /\ \E r \in put(Self, src) :
                  /\ Store(r.w)
                  /\ phase' = IF r.panic THEN "panicked" ELSE phase
                  /\ srcLeft' = r.left
             /\ appended' = appended + Sum(sizes)
             /\ arg' = src
    /\ op' = "put"
    /\ region' = 0
    /\ slicesOnly' = FALSE
    /\ UNCHANGED <<cap0, ret, checkedErr>>

ChunkMut ==
    /\ phase = "open"
    /\ \E w \in chunk_mut(Self) :
         /\ Store(w)
         /\ region' = w.cap - Len(w.buf)
    /\ op' = "chunk_mut"
    /\ arg' = <<>>
    /\ slicesOnly' = FALSE
    /\ srcLeft' = <<>>
    /\ UNCHANGED <<cap0, phase, appended, ret, checkedErr>>

\* advance_mut(cnt) after the producer has written cnt bytes into the region
AdvanceMut ==
    /\ phase = "open"
    /\ \E cnt \in 1..Min(Min(region, MaxSlice), MaxTotal - appended) :
         LET bytes == Labels(appended, cnt)
         IN  /\ \E w \in advance_mut(Self, bytes) : Store(w)
             /\ appended' = appended + cnt
             /\ region' = region - cnt
             /\ arg' = <<bytes>>
    /\ op' = "advance_mut"
    /\ slicesOnly' = FALSE
    /\ srcLeft' = <<>>
    /\ UNCHANGED <<cap0, phase, ret, checkedErr>>

Check ==
    /\ phase = "open"
    /\ LET r == check(Self)
       IN  /\ Store(r.w)
           /\ ret' = r.ret
           /\ checkedErr' = (checkedErr \/ r.ret # None)
    /\ op' = "check"
    /\ arg' = <<>>
    /\ region' = 0
    /\ srcLeft' = <<>>
    /\ UNCHANGED <<cap0, phase, appended, slicesOnly>>

Close ==
    /\ phase = "open"
    /\ \E r \in close(Self) :
         /\ Store(r.w)
         /\ ret' = r.ret
    /\ phase' = "closed"
    /\ op' = "close"
    /\ arg' = <<>>
    /\ region' = 0
    /\ srcLeft' = <<>>
    /\ UNCHANGED <<cap0, appended, slicesOnly, checkedErr>>

\* the adapter goes out of scope without close()
Drop ==
    /\ phase = "open"
    /\ \E w \in drop(Self) : Store(w)
    /\ phase' = "dropped"
    /\ op' = "drop"
    /\ arg' = <<>>
    /\ region' = 0
    /\ srcLeft' = <<>>
    /\ UNCHANGED <<cap0, appended, ret, slicesOnly, checkedErr>>

Next ==
    \/ PutSlice
    \/ Put
    \/ ChunkMut
    \/ AdvanceMut
    \/ Check
    \/ Close
    \/ Drop

Spec == Init /\ [][Next]_vars

(* --------------------------- derived values ---------------------------- *)
\* the bytes the sink has received: those of the write_all calls that succeeded
RECURSIVE DeliveredOf(_)
DeliveredOf(cs) ==
    IF cs = <<>> THEN <<>>
    ELSE (IF Head(cs).ok THEN Head(cs).bytes ELSE <<>>) \o DeliveredOf(Tail(cs))

Delivered == DeliveredOf(calls)

\* the bytes passed to write_all, over all its invocations
RECURSIVE PassedOf(_)
PassedOf(cs) ==
    IF cs = <<>> THEN <<>> ELSE Head(cs).bytes \o PassedOf(Tail(cs))

Passed == PassedOf(calls)

TypeOK ==
    /\ cap0 \in 0..MaxCap
    /\ cap \in Nat
    /\ error \in 0..MaxFail
    /\ nfail \in 0..MaxFail
    /\ phase \in {"open", "closed", "dropped", "panicked"}
    /\ appended \in 0..MaxTotal
    /\ flushed \in BOOLEAN

\* the write_all invocations made by the step, in order
NewCalls == SubSeq(calls', Len(calls) + 1, Len(calls'))

\* the last write_all invocation and the one before it
LastCall == calls[Len(calls)]
CallBeforeLast == calls[Len(calls) - 1]

(* ------------------------------- claims -------------------------------- *)

\* C1: after any sequence of put_slice calls on a sink that never fails,
\* followed by close(), the slices passed to write_all, concatenated, are
\* exactly the appended bytes in order.
C1_SlicesReachSinkInOrder ==
    (phase = "closed" /\ slicesOnly /\ nfail = 0)
        => Passed = Labels(0, appended)

C1_Witness ==
    /\ phase = "closed" /\ slicesOnly /\ nfail = 0
    /\ appended = MaxTotal
    /\ \E i \in 1..Len(calls) : \E j \in 1..Len(calls) :
         i # j /\ calls[i].bytes # <<>> /\ calls[j].bytes # <<>>

\* C2 as stated: every put_slice of a slice of length >= capacity passes
\* the slice directly to the sink and copies none of it into the buffer
\* (checked where it is least demanding: a non-empty slice, a sink that
\* has never failed).
C2_Original ==
    [][(op' = "put_slice" /\ nfail' = 0 /\ arg'[1] # <<>>
            /\ Len(arg'[1]) >= cap)
        => /\ NewCalls # <<>>
           /\ NewCalls[Len(NewCalls)].bytes = arg'[1]
           /\ Range(arg'[1]) \cap Range(buf') = {}]_vars

\* C2 as amended: a put_slice of a slice of length >= capacity that does
\* not fit in the remaining room copies none of it into the buffer: the
\* buffer is flushed and left empty, and the slice is passed to the sink in
\* one direct write after the flushed bytes, unless an error is pending at
\* the call (nothing is passed) or the flush fails (the slice is dropped).
C2_LargeSliceBypasses ==
    [][(op' = "put_slice" /\ Len(arg'[1]) >= cap
            /\ Len(arg'[1]) > cap - Len(buf))
        => /\ buf' = <<>>
           /\ IF error # None THEN NewCalls = <<>>
              ELSE /\ NewCalls # <<>>
                   /\ NewCalls[1].bytes = buf
                   /\ IF NewCalls[1].ok
                      THEN Len(NewCalls) = 2 /\ NewCalls[2].bytes = arg'[1]
                      ELSE Len(NewCalls) = 1]_vars

C2_Witness ==
    /\ op = "put_slice" /\ cap >= 1 /\ Len(arg[1]) = cap
    /\ buf = <<>>
    /\ Len(calls) >= 2
    /\ LastCall.bytes = arg[1]
    /\ CallBeforeLast.bytes # <<>> /\ CallBeforeLast.ok

\* C3 as stated: whatever the state, close() makes the sink receive all
\* the bytes that were in the buffer.
C3_Original ==
    [][op' = "close" => Delivered' = Delivered \o buf]_vars

\* C3 as amended: when close() returns Ok(()), the sink has received all
\* the bytes that were in the buffer at the call, in one write; when it
\* returns an error (one pending at the call, or the final write failing),
\* the sink has received none of them.
C3_CloseDelivers ==
    [][op' = "close"
        => IF ret' = None
           THEN /\ NewCalls # <<>>
                /\ NewCalls[1].bytes = buf /\ NewCalls[1].ok
                /\ Delivered' = Delivered \o buf
           ELSE Delivered' = Delivered]_vars

C3_Witness ==
    /\ op = "close" /\ ret = None
    /\ Len(calls) >= 2
    /\ CallBeforeLast.bytes # <<>> /\ CallBeforeLast.ok
    /\ LastCall.bytes = <<>>

\* C4: close() returns the pending error when one is pending at the call;
\* otherwise it invokes the sink with the buffer and returns that write's
\* error when it fails and Ok(()) when it succeeds.
C4_CloseResult ==
    [][op' = "close"
        => IF error # None THEN ret' = error
           ELSE /\ NewCalls # <<>>
                /\ NewCalls[1].bytes = buf
                /\ ret' = IF NewCalls[1].ok THEN None ELSE nfail + 1]_vars

C4_Witness ==
    /\ op = "close" /\ ret # None
    /\ Len(calls) >= 2
    /\ CallBeforeLast.bytes # <<>> /\ ~CallBeforeLast.ok
    /\ ret = IF LastCall.ok THEN nfail ELSE nfail - 1

\* C5: between a failed write_all and the next check() the sink is never
\* invoked: no invocation is made while a failure is unchecked.
C5_NoSinkCallWhileUnchecked ==
    \A i \in 1..Len(calls) : ~calls[i].stale

\* a put_slice with a failure unchecked, whose flush of a non-empty buffer
\* and whose direct write of a non-empty slice both left the sink alone
C5_Witness ==
    /\ unchecked /\ op = "put_slice" /\ flushed
    /\ arg[1] # <<>> /\ Len(arg[1]) >= cap
    /\ Range(arg[1]) \cap Range(Passed) = {}
    /\ \E b \in lost : b \notin Range(Passed)

\* C6: check() returns the pending error and empties the slot; the slot is
\* set again only by a write_all that fails afterwards, whose error it
\* then holds, so a check() with nothing pending returns Ok(()).
C6_CheckReportsOnce ==
    [][/\ op' = "check" => (ret' = error /\ error' = None)
       /\ (error = None /\ error' # None)
            => /\ NewCalls # <<>>
               /\ ~NewCalls[Len(NewCalls)].ok
               /\ error' = nfail']_vars

\* a second failure, after the first was checked, has been reported
C6_Witness ==
    /\ op = "check" /\ ret # None /\ ret = nfail /\ nfail > 1
    /\ error = None

\* C7: once the slot holds an error, put_slice, put, chunk_mut and
\* advance_mut leave it as it is; only check() (and close()) empty it; and
\* an operation that fills the empty slot has made exactly one failing
\* write_all, whose error the slot holds.
C7_FirstErrorKept ==
    [][/\ (error # None /\ op' # "close")
            => \/ error' = error
               \/ error' = None /\ op' = "check"
       /\ (error = None /\ error' # None /\ op' # "close")
            => error' = nfail + 1 /\ nfail' = nfail + 1]_vars

\* a chunk_mut that flushed a full buffer with an error pending
C7_Witness ==
    /\ error # None /\ op = "chunk_mut" /\ flushed
    /\ \E b \in lost : b \notin Range(Passed)

\* the chunks of src left once the leading chunks have been taken off until
\* what remains is at most c bytes
Remainder(src, c) ==
    LET k == CHOOSE k \in 0..Len(src) :
                 /\ Remaining(SubSeq(src, k + 1, Len(src))) <= c
                 /\ \A j \in 0..(k - 1) :
                      Remaining(SubSeq(src, j + 1, Len(src))) > c
    IN  SubSeq(src, k + 1, Len(src))

\* C8: put of a source of several chunks whose total size exceeds the
\* capacity, on a sink that never fails: the sink's bytes followed by the
\* buffer are the previous buffer followed by the chunks in order, and the
\* final remainder of the source (at most capacity bytes) is in the
\* buffer, not written.
C8_ChainedSource ==
    [][(op' = "put" /\ nfail' = 0 /\ Len(arg') >= 2 /\ Remaining(arg') > cap)
        => /\ Delivered' \o buf' = Delivered \o buf \o Flatten(arg')
           /\ buf' = Flatten(Remainder(arg', cap))
           /\ Len(buf') <= cap]_vars

C8_Witness ==
    /\ op = "put" /\ nfail = 0 /\ Len(arg) >= 2 /\ Remaining(arg) > cap
    /\ buf # <<>> /\ buf = arg[Len(arg)]
    /\ Len(calls) >= 2
    /\ CallBeforeLast.bytes # <<>>
    /\ LastCall.bytes = arg[1]

\* C9 as stated: the buffer length is at most the capacity, and the
\* capacity is the one chosen at construction.
C9_Original ==
    Len(buf) <= cap /\ cap = cap0

\* C9 as amended: the buffer length is at most the capacity, and the
\* capacity is the one chosen at construction, except that a buffer
\* constructed with capacity 0 has capacity 64 once chunk_mut has been
\* called.
C9_LengthWithinCapacity ==
    /\ Len(buf) <= cap
    /\ cap = cap0 \/ (cap0 = 0 /\ cap = 64)

C9_Witness ==
    /\ cap0 >= 2 /\ Len(buf) = cap
    /\ op = "advance_mut"
    /\ calls # <<>>

\* C10: an operation that flushes keeps none of the bytes that were in the
\* buffer (a flush that ends the operation leaves the buffer empty), and
\* the bytes that were in the buffer at a failed or suppressed flush are
\* not passed to the sink by any later operation.
C10_FlushDrainsNoRetry ==
    [][/\ flushed' => Range(buf) \cap Range(buf') = {}
       /\ (flushed' /\ op' \in {"chunk_mut", "close", "drop"}) => buf' = <<>>
       /\ \A b \in lost : b \notin Range(PassedOf(NewCalls))]_vars

\* after a failed flush of a non-empty buffer the error was checked and a
\* later write delivered other bytes
C10_Witness ==
    \E i \in 1..Len(calls) : \E j \in 1..Len(calls) :
        /\ i < j
        /\ ~calls[i].ok /\ Range(calls[i].bytes) \cap lost # {}
        /\ calls[j].ok /\ calls[j].bytes # <<>>

\* C11: the assertion of put (remaining size <= capacity - length, before
\* the final copy) never fails, whatever the adapter's state, the source's
\* size and chunking, and the outcomes of the sink.
C11_AssertionHolds ==
    phase # "panicked"

\* a put that went round its loop with the sink failing, and then copied
\* the rest of the source into the buffer
C11_Witness ==
    /\ op = "put" /\ phase = "open"
    /\ iters >= 1 /\ error # None
    /\ buf # <<>> /\ Len(buf) = cap

\* C12: put_slice of a slice longer than the remaining room but shorter
\* than the capacity, with no error pending and the sink succeeding, makes
\* exactly one write_all, of the previous buffer contents, and leaves
\* exactly the slice in the buffer.
C12_FlushThenBuffer ==
    [][(op' = "put_slice" /\ error = None /\ nfail' = nfail
            /\ Len(arg'[1]) > cap - Len(buf) /\ Len(arg'[1]) < cap)
        => /\ Len(NewCalls) = 1
           /\ NewCalls[1].bytes = buf /\ NewCalls[1].ok
           /\ buf' = arg'[1]]_vars

\* the scenario of the specification scaled down (capacity 3, two slices
\* of 2 bytes): the sink holds exactly the first slice
C12_Witness ==
    /\ op = "put_slice" /\ cap > Len(buf)
    /\ Len(calls) = 1 /\ calls[1].ok
    /\ calls[1].bytes = Labels(0, Len(buf))
    /\ buf = arg[1] /\ Len(buf) >= 2
    /\ Delivered \o buf = Labels(0, appended)

\* C13: when the adapter is dropped without close(), the buffer is passed
\* to the sink in one write_all if no error is pending and nothing is
\* passed if one is; nothing is returned to the caller either way.
C13_DropFlushesSilently ==
    [][op' = "drop"
        => /\ IF error = None
              THEN Len(NewCalls) = 1 /\ NewCalls[1].bytes = buf
              ELSE NewCalls = <<>>
           /\ buf' = <<>>
           /\ ret' = ret /\ phase' = "dropped"]_vars

\* a drop whose write of a non-empty buffer failed, unreported
C13_Witness ==
    /\ op = "drop" /\ phase = "dropped"
    /\ calls # <<>> /\ LastCall.bytes # <<>> /\ ~LastCall.ok
    /\ error # None /\ ret = None

\* C14: chunk_mut flushes exactly when the buffer is full at the call; the
\* region it returns is the unused tail of the buffer, of length
\* capacity - length after the possible flush, which is at least 1
\* whenever the capacity is at least 1.
C14_ChunkMutRegion ==
    [][op' = "chunk_mut"
        => /\ flushed' <=> (Len(buf) = cap)
           /\ buf' = IF Len(buf) = cap THEN <<>> ELSE buf
           /\ region' = cap' - Len(buf')
           /\ cap >= 1 => (cap' = cap /\ region' >= 1)]_vars

\* a chunk_mut on a full buffer of capacity >= 1
C14_Witness ==
    /\ op = "chunk_mut" /\ flushed
    /\ cap = cap0 /\ cap >= 1 /\ region = cap
    /\ calls # <<>> /\ Len(LastCall.bytes) = cap

\* C15: put writes a chunk of the source directly only when what remains
\* of the source, that chunk included, exceeds the capacity; a source of
\* at most capacity bytes is copied whole into the buffer, after one flush
\* of the old contents when they leave it no room and none otherwise.
C15_BypassThreshold ==
    [][op' = "put"
        => /\ \A j \in 2..Len(NewCalls) :
                /\ NewCalls[j].bytes = arg'[j - 1]
                /\ Remaining(SubSeq(arg', j - 1, Len(arg'))) > cap
           /\ Remaining(arg') <= cap
                => /\ Len(NewCalls) <= 1
                   /\ NewCalls # <<>> => NewCalls[1].bytes = buf
                   /\ (NewCalls # <<>> \/ flushed')
                        <=> Remaining(arg') > cap - Len(buf)
                   /\ buf' = (IF flushed' THEN <<>> ELSE buf) \o Flatten(arg')
           /\ Remaining(arg') > cap /\ error = None
                => NewCalls # <<>> /\ NewCalls[1].bytes = buf]_vars

\* a source of exactly capacity bytes, in two chunks, that did not fit the
\* room: flushed and buffered whole
C15_Witness ==
    /\ op = "put" /\ Len(arg) >= 2 /\ Remaining(arg) = cap
    /\ flushed /\ buf = Flatten(arg)
    /\ calls # <<>> /\ LastCall.bytes # <<>>
    /\ Range(LastCall.bytes) \cap Range(buf) = {}

\* C16: once check() has consumed an error the sink is invoked again by
\* the next flush or direct write, and a failure of a write is recorded in
\* the slot; the slot is set only by a failed write_all and emptied only
\* by check() and close().
C16_WritableAfterCheck ==
    [][/\ op' = "check" => error' = None
       /\ (op = "check" /\ flushed') => (NewCalls # <<>> /\ NewCalls[1].bytes = buf)
       /\ (op = "check" /\ op' = "put_slice" /\ Len(arg'[1]) >= cap
                /\ Len(arg'[1]) > cap - Len(buf)
                /\ NewCalls # <<>> /\ NewCalls[1].ok)
            => (Len(NewCalls) = 2 /\ NewCalls[2].bytes = arg'[1])
       /\ (NewCalls # <<>> /\ ~NewCalls[Len(NewCalls)].ok /\ op' # "close")
            => error' = nfail' /\ error' # None
       /\ (error = None /\ error' # None)
            => (NewCalls # <<>> /\ ~NewCalls[Len(NewCalls)].ok)
       /\ (error # None /\ error' = None) => op' \in {"check", "close"}]_vars

\* after a first failure was checked, a later write reached the sink,
\* failed, and is pending
C16_Witness ==
    /\ error # None /\ error = nfail /\ nfail >= 2
    /\ checkedErr /\ op \in {"put_slice", "put", "chunk_mut"}
    /\ ~LastCall.ok /\ ~LastCall.stale

\* C17: as long as no write_all has failed, the bytes received by the sink
\* followed by the buffer contents are exactly the bytes appended so far.
C17_SinkThenBufferIsStream ==
    nfail = 0 => Delivered \o buf = Labels(0, appended)

\* put_slice, put and chunk_mut + advance_mut have all been used, part of
\* the stream is in the sink and part in the buffer
C17_Witness ==
    /\ nfail = 0 /\ ~slicesOnly /\ phase = "open"
    /\ op = "advance_mut" /\ appended = MaxTotal
    /\ Delivered # <<>> /\ buf # <<>>
    /\ Len(calls) >= 2

\* C18: in every run the bytes delivered to the sink are a subsequence of
\* the appended stream: in order, each at most once.
C18_DeliveredInOrder ==
    /\ \A i \in 1..Len(Delivered) : Delivered[i] \in 1..appended
    /\ \A i \in 1..Len(Delivered) : \A j \in 1..Len(Delivered) :
         i < j => Delivered[i] < Delivered[j]

\* a closed adapter whose sink received bytes before and after bytes that
\* were lost to a failure
C18_Witness ==
    /\ phase = "closed" /\ nfail >= 1
    /\ \E i \in 1..(Len(Delivered) - 1) : Delivered[i + 1] > Delivered[i] + 1

\* C19: if close() returns Ok(()) and no check() call has returned an
\* error, the sink has received every byte appended, in order.
C19_CloseOkMeansAllDelivered ==
    (phase = "closed" /\ ret = None /\ ~checkedErr)
        => Delivered = Labels(0, appended)

C19_Witness ==
    /\ phase = "closed" /\ ret = None /\ ~checkedErr
    /\ appended = MaxTotal /\ Len(calls) >= 3

\* C19, second half: close() has returned Ok(()) after a check() returned
\* an error, and appended bytes never reached the sink
C19_LossAfterCheck ==
    /\ phase = "closed" /\ ret = None /\ checkedErr
    /\ Delivered # Labels(0, appended)

\* C20: put reads its source to the end, whatever the sink does, going
\* round its loop at most once for each chunk of the source.
C20_SourceConsumed ==
    [][op' = "put"
        => /\ srcLeft' = <<>>
           /\ iters' <= Len(arg')
           /\ phase' = "open"]_vars

\* a put that went round its loop twice with the sink failing
C20_Witness ==
    /\ op = "put" /\ iters >= 2 /\ error # None
    /\ srcLeft = <<>>

====
